---- MODULE Spec2Model ----
(***************************************************************************)
(* Model of image_downloader.py: a manifest of (filename, url, uploader,   *)
(* size, sha1) lines is read, every entry is handed to a thread pool, each *)
(* worker verifies the local asset, maybe re-downloads it, always          *)
(* downloads the description, and the main thread collects the per-entry   *)
(* error lists into one report.  404 responses are appended to a shared    *)
(* error log.                                                              *)
(*                                                                         *)
(* A Python str is modelled as a sequence of atoms (TLA+ strings); f-string*)
(* formatting and + are \o.  File contents are sequences of blocks, one    *)
(* block standing for one 8192-byte chunk.                                 *)
(***************************************************************************)
EXTENDS Integers, Sequences, FiniteSets, TLC

\* ------------------------------------------------------------------ bounds
\* Most entry lines of a manifest file that Init enumerates.
MaxLines == 3
\* Pool size of the model (MAX_WORKERS = 10 in the source, scaled down so
\* that manifests longer than the pool occur).
PoolSize == 2
\* Most requests, stream reads and file reads that fail.
MaxFaults == 2
\* Most runs of the script in a row.
MaxRuns == 2

\* ------------------------------------------------------------- CONFIG (8-13)
OUTPUT_DIR == "images"
DESC_DIR == "descs"

\* base_wiki_url after .strip().rstrip('/') and the template built from it.
base_wiki_url == <<"https://w">>
desc_url_template(filename) ==
    base_wiki_url \o <<"/wiki/Special:Export/File:">> \o filename

\* ------------------------------------------------------------ str helpers
TAB == "\t"
NL == "\n"
Whitespace == {" ", TAB, NL}

RECURSIVE LStrip(_)
LStrip(s) ==
    IF s # <<>> /\ Head(s) \in Whitespace THEN LStrip(Tail(s)) ELSE s

RECURSIVE RStrip(_)
RStrip(s) ==
    IF s # <<>> /\ s[Len(s)] \in Whitespace
    THEN RStrip(SubSeq(s, 1, Len(s) - 1))
    ELSE s

\* str.strip()
Strip(s) == RStrip(LStrip(s))

\* str.split(sep): the fields between the separators (always at least one).
RECURSIVE Split(_, _)
Split(s, sep) ==
    IF \E i \in 1..Len(s) : s[i] = sep
    THEN LET i == CHOOSE j \in 1..Len(s) :
                      s[j] = sep /\ \A k \in 1..(j - 1) : s[k] # sep
         IN  <<SubSeq(s, 1, i - 1)>> \o Split(SubSeq(s, i + 1, Len(s)), sep)
    ELSE <<s>>

\* str(n) for a natural number: its decimal digits.
Digits == <<"0", "1", "2", "3", "4", "5", "6", "7", "8", "9">>
RECURSIVE Str(_)
Str(n) ==
    IF n < 10 THEN <<Digits[n + 1]>>
    ELSE Str(n \div 10) \o <<Digits[(n % 10) + 1]>>

\* urllib.parse.quote: atoms outside the safe set are percent-encoded.
quote(s) == [i \in 1..Len(s) |-> IF s[i] = " " THEN "%20" ELSE s[i]]

\* ------------------------------------------------------------ files
\* A file: whether it exists and its blocks.
Absent == [exists |-> FALSE, data |-> <<>>]
File(d) == [exists |-> TRUE, data |-> d]

\* os.path.join(dir, name)
PathJoin(dir, name) == <<dir, name>>

\* hashlib.sha1: h.update per chunk, hexdigest at the end.  The digest is a
\* small injective fold over the blocks (collision-free on the contents the
\* model writes).
HexDigits == <<"0", "1", "2", "3", "4", "5", "6", "7",
               "8", "9", "a", "b", "c", "d", "e", "f">>
RECURSIVE Sha1Update(_, _)
Sha1Update(h, data) ==
    IF data = <<>> THEN h
    ELSE Sha1Update((h * 3 + Head(data)) % 16, Tail(data))
sha1_hash(data) == <<HexDigits[Sha1Update(0, data) + 1]>>

\* os.path.getsize
getsize(data) == Len(data)

\* ------------------------------------------------------------ environment
\* Filenames, asset URLs and the bodies the server holds for them.
F1 == <<"cat.png">>
F2 == <<"my", " ", "dog.png">>
U1 == <<"http://x/cat.png">>
U2 == <<"http://x/dog.png">>
Filenames == {F1, F2}

\* Body served for a URL on a 200 response (one block per chunk).
BodyOf(url) ==
    IF url = U1 THEN <<1>>
    ELSE IF url = U2 THEN <<1, 2>>
    ELSE <<2>>

\* One manifest line as written in image_list.txt.
Line(fields) ==
    LET RECURSIVE Join(_)
        Join(fl) == IF Len(fl) = 1 THEN fl[1]
                    ELSE fl[1] \o <<TAB>> \o Join(Tail(fl))
    IN  Join(fields) \o <<NL>>

\* The lines a manifest of the model is made of: two well-formed entries
\* whose size and hash are those of the served bodies, and one with a
\* missing field.  Every manifest ends with a blank line.
LGood1 == Line(<<F1, U1, <<"alice">>, Str(getsize(BodyOf(U1))), sha1_hash(BodyOf(U1))>>)
LGood2 == Line(<<F2, U2, <<"bob">>, Str(getsize(BodyOf(U2))), sha1_hash(BodyOf(U2))>>)
LShort == Line(<<F1, U1, <<"alice">>, <<"1">>>>)
LBlank == <<" ", NL>>
ManifestLines == {LGood1, LGood2, LShort}

Paths == {PathJoin(OUTPUT_DIR, f) : f \in Filenames}
            \cup {PathJoin(DESC_DIR, f \o <<".desc">>) : f \in Filenames}

\* HTTP outcomes of requests.get: a status code, or 0 for an exception raised
\* by the request itself (timeout, connection error).
Statuses == {200, 404, 500, 0}

\* ------------------------------------------------------------ state
VARIABLES
    manifest,    \* image_list.txt: the raw lines
    fs,          \* the files under images/ and descs/, by path
    elog,        \* error_log.txt
    mpc,         \* where main() is
    entries,     \* main's parsed entries
    fut,         \* the futures executor.map created, by entry index
    queue,       \* the executor's work queue (entry indexes)
    k,           \* index of the future main waits for next
    all_errors,  \* main's all_errors
    report,      \* what main printed at the end
    thr,         \* the pool threads: locals of download_image_and_desc
    nRun,        \* per entry: invocations of download_image_and_desc
    nGet,        \* per entry: requests.get calls, by "image" / "desc"
    resp,        \* per entry: status received, by "image" / "desc" (-1: none)
    faults,      \* failures the environment has produced so far
    obs,         \* per entry: "yes" when lines 59-61 found the local asset
                 \* present with the entry's size and hash, "no" when they
                 \* found it absent or different, "unseen" before that
    peak404,     \* most threads that were between a 404 and its log append
    prev         \* the runs of the script before this one: how many,
                 \* whether the last one downloaded or kept every asset,
                 \* and whether it requested an asset at all

vars == <<manifest, fs, elog, mpc, entries, fut, queue, k, all_errors,
          report, thr, nRun, nGet, resp, faults, obs, peak404, prev>>

\* Line 94 with max_workers one too high.
WorkersOneMore == 1..(PoolSize + 1)

\* Line 94: the threads of ThreadPoolExecutor(max_workers=MAX_WORKERS).
Workers == 1..PoolSize

Idle == [pc |-> "idle", idx |-> 0, filename |-> <<>>, url |-> <<>>,
         size |-> <<>>, sha1 |-> <<>>, errors |-> <<>>,
         call |-> "none", curl |-> <<>>,
         path |-> <<>>, ctx |-> <<>>, status |-> -1, body |-> <<>>]

\* The local file is there with the size (as decimal string) and the SHA-1
\* hex digest the manifest entry gives.
UpToDate(f, size, sha1) ==
    f.exists /\ Str(Len(f.data)) = size /\ sha1_hash(f.data) = sha1

\* Manifest files of up to MaxLines entry lines and a trailing blank line.
Manifests ==
    {m \o <<LBlank>> : m \in UNION {[1..n -> ManifestLines] : n \in 0..MaxLines}}

\* Local files a run can start from: nothing downloaded yet, both assets
\* up to date, or both stale (cat.png with the right size and other content,
\* my dog.png with another size).
FsWith(a, b) ==
    [p \in Paths |->
        IF p = PathJoin(OUTPUT_DIR, F1) THEN a
        ELSE IF p = PathJoin(OUTPUT_DIR, F2) THEN b
        ELSE Absent]
InitFs ==
    {FsWith(Absent, Absent),
     FsWith(File(BodyOf(U1)), File(BodyOf(U2))),
     FsWith(File(<<2>>), File(<<1>>))}

\* error_log.txt as an earlier run may have left it.
OldLog == File(F1 \o <<TAB>> \o U1 \o <<NL>>)

\* The state main() starts from, whatever the files are.
Fresh ==
    /\ mpc = "reset"
    /\ entries = <<>>
    /\ fut = <<>>
    /\ queue = <<>>
    /\ k = 1
    /\ all_errors = <<>>
    /\ report = [kind |-> "none", errors |-> <<>>]
    /\ thr = [w \in Workers |-> Idle]
    /\ nRun = [i \in 1..MaxLines |-> 0]
    /\ nGet = [i \in 1..MaxLines |-> [image |-> 0, desc |-> 0]]
    /\ resp = [i \in 1..MaxLines |-> [image |-> -1, desc |-> -1]]
    /\ obs = [i \in 1..MaxLines |-> "unseen"]
    /\ peak404 = 0

Init ==
    /\ manifest \in Manifests
    /\ fs \in InitFs
    /\ elog \in {Absent, OldLog}
    /\ faults = 0
    /\ prev = [n |-> 0, clean |-> FALSE, fetched |-> FALSE]
    /\ Fresh

\* ------------------------------------------------------------ main()
\* main() without lines 85-86: a left-over error log is kept.
ResetLogKeeps ==
    /\ mpc = "reset"
    /\ mpc' = "read"
    /\ UNCHANGED <<manifest, prev, fs, elog, entries, fut, queue, k, all_errors,
                   report, thr, nRun, nGet, resp, faults, obs, peak404>>

\* Lines 85-86: remove a left-over error log.
ResetLog ==
    /\ mpc = "reset"
    /\ elog' = Absent
    /\ mpc' = "read"
    /\ UNCHANGED <<manifest, prev, fs, entries, fut, queue, k, all_errors, report,
                   thr, nRun, nGet, resp, faults, obs, peak404>>

\* Line 89 keeping only the lines with five fields.
RECURSIVE ParseManifestValidating(_)
ParseManifestValidating(lines) ==
    IF lines = <<>> THEN <<>>
    ELSE (IF Len(Split(Strip(Head(lines)), TAB)) = 5
          THEN <<Split(Strip(Head(lines)), TAB)>>
          ELSE <<>>) \o ParseManifestValidating(Tail(lines))

\* Line 89: [line.strip().split('\t') for line in f if line.strip()]
RECURSIVE ParseManifest(_)
ParseManifest(lines) ==
    IF lines = <<>> THEN <<>>
    ELSE (IF Strip(Head(lines)) # <<>>
          THEN <<Split(Strip(Head(lines)), TAB)>>
          ELSE <<>>) \o ParseManifest(Tail(lines))

\* Lines 88-89.
ReadManifest ==
    /\ mpc = "read"
    /\ entries' = ParseManifest(manifest)
    /\ mpc' = "submit"
    /\ UNCHANGED <<manifest, prev, fs, elog, fut, queue, k, all_errors, report,
                   thr, nRun, nGet, resp, faults, obs, peak404>>

Pending == [state |-> "pending", result |-> <<>>]

\* Lines 93-95: executor.map submits one work item per entry, in manifest
\* order, before the first result is asked for.
Submit ==
    /\ mpc = "submit"
    /\ fut' = [i \in 1..Len(entries) |-> Pending]
    /\ queue' = [i \in 1..Len(entries) |-> i]
    /\ k' = 1
    /\ all_errors' = <<>>
    /\ mpc' = "collect"
    /\ UNCHANGED <<manifest, prev, fs, elog, entries, report, thr, nRun, nGet, resp, faults, obs, peak404>>

\* Line 96 as all_errors = result.
ExtendOverwrite(errs, result) == result

\* Line 96 putting each result in front of the list.
ExtendFront(errs, result) == result \o errs

\* Line 96: all_errors.extend(result)
Extend(errs, result) == errs \o result

\* Lines 95-96: the next result of executor.map, in submission order.
Collect ==
    /\ mpc = "collect"
    /\ k <= Len(fut)
    /\ fut[k].state = "done"
    /\ all_errors' = Extend(all_errors, fut[k].result)
    /\ k' = k + 1
    /\ UNCHANGED <<manifest, prev, fs, elog, mpc, entries, fut, queue, report, thr,
                   nRun, nGet, resp, faults, obs, peak404>>

\* Line 95: the future main waits for raised.  executor.map's generator
\* cancels every future it has not yielded yet (a running one cannot be
\* cancelled) and the exception leaves the for loop.
CollectRaised ==
    /\ mpc = "collect"
    /\ k <= Len(fut)
    /\ fut[k].state = "raised"
    /\ fut' = [i \in 1..Len(fut) |->
                 IF i > k /\ fut[i].state = "pending"
                 THEN [fut[i] EXCEPT !.state = "cancelled"]
                 ELSE fut[i]]
    /\ mpc' = "unwind"
    /\ UNCHANGED <<manifest, prev, fs, elog, entries, queue, k, all_errors, report,
                   thr, nRun, nGet, resp, faults, obs, peak404>>

\* Line 94 with executor.shutdown(wait=False): the with block is left at
\* once.
PoolJoinedNoWait == TRUE

\* Line 94, leaving the with block: executor.shutdown(wait=True) returns
\* when the queue is drained and every pool thread is back.
PoolJoined == queue = <<>> /\ \A w \in Workers : thr[w].pc = "idle"

\* Lines 94-98: all results collected, the pool is joined.
JoinPool ==
    /\ mpc = "collect"
    /\ k > Len(fut)
    /\ PoolJoined
    /\ mpc' = "completed"
    /\ UNCHANGED <<manifest, prev, fs, elog, entries, fut, queue, k, all_errors,
                   report, thr, nRun, nGet, resp, faults, obs, peak404>>

\* Line 94 on the exception path: the pool is joined, then the exception
\* leaves main(); nothing more is printed.
Crash ==
    /\ mpc = "unwind"
    /\ PoolJoined
    /\ mpc' = "crashed"
    /\ UNCHANGED <<manifest, prev, fs, elog, entries, fut, queue, k, all_errors,
                   report, thr, nRun, nGet, resp, faults, obs, peak404>>

\* Lines 98-106: "All downloads completed." and the error list or the
\* success message.
Report ==
    /\ mpc = "completed"
    /\ report' = [kind |-> IF all_errors # <<>> THEN "errors" ELSE "success",
                  errors |-> all_errors]
    /\ mpc' = "done"
    /\ UNCHANGED <<manifest, prev, fs, elog, entries, fut, queue, k, all_errors,
                   thr, nRun, nGet, resp, faults, obs, peak404>>

\* ------------------------------------------------------------ workers
\* Line 52: filename, url, uploader, size, sha1 = entry
UnpackOk(entry) == Len(entry) = 5

\* Line 62 comparing the int with the str (actual_size == size): never equal.
MatchesIntSize(actual_size, actual_sha1, size, sha1) ==
    FALSE /\ actual_sha1 = sha1

\* Line 62 with "or" for "and".
MatchesOr(actual_size, actual_sha1, size, sha1) ==
    Str(actual_size) = size \/ actual_sha1 = sha1

\* Line 62: str(actual_size) == size and actual_sha1 == sha1
Matches(actual_size, actual_sha1, size, sha1) ==
    Str(actual_size) = size /\ actual_sha1 = sha1

\* Line 36: f"{error_context}\t{url}\n"
LogLine(error_context, url) == error_context \o <<TAB>> \o url \o <<NL>>

\* Line 35 with mode 'w': every record replaces the log.
LogAppendTruncating(data, line) == line

\* Lines 35-36: open(ERROR_LOG_FILE, 'a') and one buffered write, flushed
\* at close as a single O_APPEND write.
LogAppend(data, line) == data \o line

\* Line 75 passing the bare filename as error context.
DescContextPlain(filename) == filename

\* Line 75: the error context of the description fetch.
DescContext(filename) == filename \o <<".desc">>

\* Lines 71, 77, 80: the error strings of one entry.
ErrString(filename, what, error) ==
    filename \o <<" - ", what, ": ">> \o error

\* Lines 69 and 74-75 with one fixed file name for every description.
StartCallOneDescFile(t, which) ==
    IF which = "image"
    THEN [t EXCEPT !.pc = "get", !.call = "image", !.curl = t.url,
                   !.path = PathJoin(OUTPUT_DIR, t.filename),
                   !.ctx = t.filename, !.status = -1, !.body = <<>>]
    ELSE [t EXCEPT !.pc = "get", !.call = "desc",
                   !.curl = desc_url_template(quote(t.filename)),
                   !.path = PathJoin(DESC_DIR, F1 \o <<".desc">>),
                   !.ctx = DescContext(t.filename), !.status = -1,
                   !.body = <<>>]

\* Lines 69 and 74-75 with the two downloads in the other order.
StartCallDescFirst(t, which) ==
    IF which = "desc"
    THEN [t EXCEPT !.pc = "get", !.call = "image", !.curl = t.url,
                   !.path = PathJoin(OUTPUT_DIR, t.filename),
                   !.ctx = t.filename, !.status = -1, !.body = <<>>]
    ELSE [t EXCEPT !.pc = "get", !.call = "desc",
                   !.curl = desc_url_template(quote(t.filename)),
                   !.path = PathJoin(DESC_DIR, t.filename \o <<".desc">>),
                   !.ctx = DescContext(t.filename), !.status = -1,
                   !.body = <<>>]

\* Lines 69 and 74-75: the arguments of a download_with_progress call.
StartCall(t, which) ==
    IF which = "image"
    THEN [t EXCEPT !.pc = "get", !.call = "image", !.curl = t.url,
                   !.path = PathJoin(OUTPUT_DIR, t.filename),
                   !.ctx = t.filename, !.status = -1, !.body = <<>>]
    ELSE [t EXCEPT !.pc = "get", !.call = "desc",
                   !.curl = desc_url_template(quote(t.filename)),
                   !.path = PathJoin(DESC_DIR, t.filename \o <<".desc">>),
                   !.ctx = DescContext(t.filename), !.status = -1,
                   !.body = <<>>]

\* Line 82 seen from the pool: the work item's future gets the returned
\* list and the thread goes back to the queue.
Finish(w, errs) ==
    /\ fut' = [fut EXCEPT ![thr[w].idx] = [state |-> "done", result |-> errs]]
    /\ thr' = [thr EXCEPT ![w] = Idle]

\* Lines 70-71 with a return after the append: a failed asset download
\* ends the entry.
AfterFetchStopsOnFailure(w, success, error) ==
    LET t == thr[w]
        errs == IF success THEN t.errors
                ELSE Append(t.errors,
                            ErrString(t.filename,
                                      IF t.call = "image" THEN "image failed"
                                      ELSE "desc failed",
                                      error))
    IN  IF t.call = "image" /\ success
        THEN /\ thr' = [thr EXCEPT ![w] = StartCall([t EXCEPT !.errors = errs], "desc")]
             /\ UNCHANGED fut
        ELSE Finish(w, errs)

\* Lines 70-71 and 76-82: what the caller does with the (success, error)
\* that download_with_progress returned.
AfterFetch(w, success, error) ==
    LET t == thr[w]
        errs == IF success THEN t.errors
                ELSE Append(t.errors,
                            ErrString(t.filename,
                                      IF t.call = "image" THEN "image failed"
                                      ELSE "desc failed",
                                      error))
    IN  IF t.call = "image"
        THEN /\ thr' = [thr EXCEPT ![w] = StartCall([t EXCEPT !.errors = errs], "desc")]
             /\ UNCHANGED fut
        ELSE Finish(w, errs)

\* A pool thread takes the next work item (the threads are interchangeable:
\* of the idle ones the lowest-numbered takes it).  A cancelled future is
\* dropped;
\* otherwise download_image_and_desc(entry) starts with line 52, which is
\* outside the try block: a wrong field count raises out of the function
\* and the exception is stored in the future.
Take(w) ==
    /\ thr[w].pc = "idle"
    /\ \A v \in Workers : v < w => thr[v].pc # "idle"
    /\ queue # <<>>
    /\ LET i == Head(queue) IN
        /\ queue' = Tail(queue)
        /\ IF fut[i].state = "cancelled"
           THEN UNCHANGED <<fut, thr, nRun>>
           ELSE /\ nRun' = [nRun EXCEPT ![i] = @ + 1]
                /\ IF UnpackOk(entries[i])
                   THEN /\ fut' = [fut EXCEPT ![i].state = "running"]
                        /\ thr' = [thr EXCEPT ![w] =
                                     [Idle EXCEPT !.pc = "verify", !.idx = i,
                                                  !.filename = entries[i][1],
                                                  !.url = entries[i][2],
                                                  !.size = entries[i][4],
                                                  !.sha1 = entries[i][5]]]
                   ELSE /\ fut' = [fut EXCEPT ![i].state = "raised"]
                        /\ UNCHANGED thr
    /\ UNCHANGED <<manifest, prev, fs, elog, mpc, entries, k, all_errors, report,
                   nGet, resp, faults, obs, peak404>>

\* Lines 58-68: the local asset is looked up, measured and hashed; the
\* asset download is skipped only when the file exists and matches.
Verify(w) ==
    /\ thr[w].pc = "verify"
    /\ LET t == thr[w]
           f == fs[PathJoin(OUTPUT_DIR, t.filename)]
           actual_size == getsize(f.data)
           actual_sha1 == sha1_hash(f.data)
       IN  /\ thr' = [thr EXCEPT ![w] =
                     IF f.exists /\ Matches(actual_size, actual_sha1, t.size, t.sha1)
                     THEN StartCall(t, "desc")
                     ELSE StartCall(t, "image")]
           /\ obs' = [obs EXCEPT ![t.idx] =
                        IF UpToDate(f, t.size, t.sha1) THEN "yes" ELSE "no"]
    /\ UNCHANGED <<manifest, prev, fs, elog, mpc, entries, fut, queue, k,
                   all_errors, report, nRun, nGet, resp, faults, peak404>>

\* Lines 60-61 and 79-82: measuring or reading the existing file raises (it
\* cannot be opened); the except clause turns the exception into one error
\* string and the function returns.
VerifyRaises(w) ==
    /\ thr[w].pc = "verify"
    /\ fs[PathJoin(OUTPUT_DIR, thr[w].filename)].exists
    /\ faults < MaxFaults
    /\ faults' = faults + 1
    /\ Finish(w, Append(thr[w].errors,
                        ErrString(thr[w].filename, "unexpected error",
                                  <<"Permission denied">>)))
    /\ UNCHANGED <<manifest, prev, fs, elog, mpc, entries, queue, k, all_errors,
                   report, nRun, nGet, resp, obs, peak404>>

\* ------------------------------------------------ download_with_progress
\* Lines 34-40 with the 404 test after the destination is opened.
OnStatusLate404(status) ==
    IF status \in {200, 404} THEN "open" ELSE "raise"

\* Lines 34-40 without raise_for_status: every status but 404 opens the
\* destination.
OnStatusNoRaise(status) ==
    IF status = 404 THEN "log404" ELSE "open"

\* Lines 34 and 38-40: where the function goes on a response status.
\* 404 is logged, a success status opens the destination, any other status
\* makes raise_for_status raise.
OnStatus(status) ==
    IF status = 404 THEN "log404"
    ELSE IF status = 200 THEN "open"
    ELSE "raise"

\* str(e) of the exceptions of lines 33 and 38.
ErrorText(status) ==
    IF status = 0 THEN <<"Read timed out">> ELSE Str(status) \o <<" Server Error">>

\* Lines 33-40: requests.get returns a status or raises.  A 404 goes on to
\* the error log; a success status opens the destination with
\* open(path, 'wb'), which creates or truncates it; anything else ends in
\* lines 48-49, which return (False, str(e)) without touching the
\* destination.
Get(w) ==
    /\ thr[w].pc = "get"
    /\ \E st \in Statuses :
        LET t == thr[w]
            to == IF st = 0 THEN "raise" ELSE OnStatus(st)
        IN
        /\ st # 200 => faults < MaxFaults
        /\ faults' = IF st # 200 THEN faults + 1 ELSE faults
        /\ nGet' = [nGet EXCEPT ![t.idx][t.call] = @ + 1]
        /\ resp' = [resp EXCEPT ![t.idx][t.call] = st]
        /\ IF to = "log404"
           THEN /\ thr' = [thr EXCEPT ![w] = [t EXCEPT !.pc = "log404", !.status = st]]
                /\ UNCHANGED <<fut, fs>>
           ELSE IF to = "open"
           THEN /\ thr' = [thr EXCEPT ![w] = [t EXCEPT !.pc = "write", !.status = st,
                                                       !.body = BodyOf(t.curl)]]
                /\ fs' = [fs EXCEPT ![t.path] = File(<<>>)]
                /\ UNCHANGED fut
           ELSE /\ AfterFetch(w, FALSE, ErrorText(st))
                /\ UNCHANGED fs
        /\ peak404' =
             LET n == Cardinality({v \in Workers : thr'[v].pc = "log404"})
             IN  IF n > peak404 THEN n ELSE peak404
    /\ UNCHANGED <<manifest, prev, elog, mpc, entries, queue, k, all_errors,
                   report, nRun, obs>>

\* Lines 35-37: append the record to the error log, return (False, "404 Not
\* Found").
Log404(w) ==
    /\ thr[w].pc = "log404"
    /\ elog' = File(LogAppend(elog.data, LogLine(thr[w].ctx, thr[w].curl)))
    /\ AfterFetch(w, FALSE, <<"404 Not Found">>)
    /\ UNCHANGED <<manifest, prev, fs, mpc, entries, queue, k, all_errors, report,
                   nRun, nGet, resp, faults, obs, peak404>>

\* f.write at this handle's own offset: the file grows to the offset (a
\* hole reads as block 0) and the block at the offset is replaced.
WriteAt(data, off, block) ==
    [i \in 1..(IF Len(data) > off THEN Len(data) ELSE off + 1) |->
        IF i = off + 1 THEN block
        ELSE IF i <= Len(data) THEN data[i]
        ELSE 0]

\* Lines 43-47: one chunk of the body is written; after the last one the
\* file is closed and the function returns (True, "").
WriteChunk(w) ==
    /\ thr[w].pc = "write"
    /\ LET t == thr[w]
           off == Len(BodyOf(t.curl)) - Len(t.body)
       IN  /\ fs' = [fs EXCEPT ![t.path] =
                       File(WriteAt(@.data, off, Head(t.body)))]
           /\ IF Tail(t.body) = <<>>
              THEN AfterFetch(w, TRUE, <<>>)
              ELSE /\ thr' = [thr EXCEPT ![w].body = Tail(t.body)]
                   /\ UNCHANGED fut
    /\ UNCHANGED <<manifest, prev, elog, mpc, entries, queue, k, all_errors,
                   report, nRun, nGet, resp, faults, obs, peak404>>

\* Lines 43 and 48-49: the stream breaks before the next chunk arrives; the
\* destination keeps what was written so far.
StreamFails(w) ==
    /\ thr[w].pc = "write"
    /\ faults < MaxFaults
    /\ faults' = faults + 1
    /\ AfterFetch(w, FALSE, <<"Connection broken">>)
    /\ UNCHANGED <<manifest, prev, fs, elog, mpc, entries, queue, k, all_errors,
                   report, nRun, nGet, resp, obs, peak404>>

\* ------------------------------------------------------------ specification
Next ==
    \/ ResetLog
    \/ ReadManifest
    \/ Submit
    \/ Collect
    \/ CollectRaised
    \/ JoinPool
    \/ Crash
    \/ Report
    \/ \E w \in Workers : Take(w)
    \/ \E w \in Workers : Verify(w)
    \/ \E w \in Workers : VerifyRaises(w)
    \/ \E w \in Workers : Get(w)
    \/ \E w \in Workers : Log404(w)
    \/ \E w \in Workers : WriteChunk(w)
    \/ \E w \in Workers : StreamFails(w)

Spec == Init /\ [][Next]_vars

\* ------------------------------------------------------------ run again
\* Entry i's asset is as the manifest wants it after this run: it was found
\* up to date, or its download got a success status and streamed to the
\* end.
AssetKeptOrDownloaded(i) ==
    \/ obs[i] = "yes"
    \/ /\ fut[i].state = "done"
       /\ resp[i].image = 200
       /\ \A j \in DOMAIN fut[i].result :
            \A a \in DOMAIN fut[i].result[j] :
                fut[i].result[j][a] # "image failed"

\* Lines 108-109 once more: the script is started again on the same
\* manifest, with the files and the error log as the last run left them.
Rerun ==
    /\ mpc \in {"done", "crashed"}
    /\ prev.n + 1 < MaxRuns
    /\ prev' = [n |-> prev.n + 1,
                clean |-> mpc = "done"
                          /\ \A i \in DOMAIN fut : AssetKeptOrDownloaded(i),
                fetched |-> \E i \in DOMAIN fut : nGet[i].image > 0]
    /\ mpc' = "reset"
    /\ entries' = <<>>
    /\ fut' = <<>>
    /\ queue' = <<>>
    /\ k' = 1
    /\ all_errors' = <<>>
    /\ report' = [kind |-> "none", errors |-> <<>>]
    /\ thr' = [w \in Workers |-> Idle]
    /\ nRun' = [i \in 1..MaxLines |-> 0]
    /\ nGet' = [i \in 1..MaxLines |-> [image |-> 0, desc |-> 0]]
    /\ resp' = [i \in 1..MaxLines |-> [image |-> -1, desc |-> -1]]
    /\ obs' = [i \in 1..MaxLines |-> "unseen"]
    /\ peak404' = 0
    /\ UNCHANGED <<manifest, fs, elog, faults>>

\* Runs in a row, on manifests one line shorter, with at most one failure
\* of the environment over all the runs.
RunsInit ==
    /\ manifest \in {m \in Manifests : Len(m) <= MaxLines}
    /\ fs \in InitFs
    /\ elog = Absent
    /\ faults = MaxFaults - 1
    /\ prev = [n |-> 0, clean |-> FALSE, fetched |-> FALSE]
    /\ Fresh

RunsNext == Next \/ Rerun

RunsSpec == RunsInit /\ [][RunsNext]_vars

\* ------------------------------------------------------------ properties
Calls == {"image", "desc"}

\* Number of positions of seq that hold x.
Count(seq, x) == Cardinality({j \in DOMAIN seq : seq[j] = x})

\* The records of the error log: the pieces between the newlines.
LogRecords ==
    LET parts == Split(elog.data, NL)
    IN  SubSeq(parts, 1, Len(parts) - 1)

\* The record a 404 of entry i's fetch c has to leave in the log.
ExpectedRecord(i, c) ==
    IF c = "image"
    THEN entries[i][1] \o <<TAB>> \o entries[i][2]
    ELSE entries[i][1] \o <<".desc", TAB>> \o base_wiki_url
             \o <<"/wiki/Special:Export/File:">> \o quote(entries[i][1])

\* The report string a 404 of entry i's fetch c has to leave.
Expected404String(i, c) ==
    entries[i][1] \o <<" - ", IF c = "image" THEN "image failed" ELSE "desc failed",
                       ": ", "404 Not Found">>

\* Entry i's fetch c got a 404 and its log append has been made.
Logged(i, c) ==
    /\ resp[i][c] = 404
    /\ ~ \E w \in Workers :
            thr[w].pc = "log404" /\ thr[w].idx = i /\ thr[w].call = c

LoggedFetches == {ic \in (DOMAIN fut) \X Calls : Logged(ic[1], ic[2])}

\* C1: an entry whose local asset was found present with the manifest's size
\* (as decimal string) and SHA-1 digest never has its asset URL requested;
\* the only request made for it is the one for the description.
C1_UpToDateAssetNeverFetched ==
    \A i \in DOMAIN fut :
        obs[i] = "yes" =>
            /\ nGet[i].image = 0
            /\ nGet[i].desc <= 1
            /\ fut[i].state = "done" => nGet[i].desc = 1

C1_Witness ==
    \E i \in DOMAIN fut :
        obs[i] = "yes" /\ fut[i].state = "done"
        /\ nGet[i].image = 0 /\ nGet[i].desc = 1

C3_DescFetchedOncePerEntry ==
    \A i \in DOMAIN fut : fut[i].state = "done" => nGet[i].desc = 1

\* C4: no exception leaves the processing of an entry, so no future holds an
\* exception and main never ends on one.
C4_NoExceptionLeavesEntry ==
    /\ mpc # "crashed"
    /\ \A i \in DOMAIN fut : fut[i].state # "raised"

\* C5: each 404 leaves exactly one record (context, tab, URL) in the error
\* log and exactly one error string in its entry's result, and an entry
\* whose asset request got a 404 still has its description requested.
C5_One404RecordAndString ==
    /\ mpc # "reset" =>
        \A r \in {LogRecords[j] : j \in DOMAIN LogRecords}
                 \cup {ExpectedRecord(ic[1], ic[2]) : ic \in LoggedFetches} :
            Count(LogRecords, r) =
                Cardinality({ic \in LoggedFetches : ExpectedRecord(ic[1], ic[2]) = r})
    /\ \A i \in DOMAIN fut :
        fut[i].state = "done" =>
            /\ \A c \in Calls :
                Count(fut[i].result, Expected404String(i, c)) =
                    IF resp[i][c] = 404 THEN 1 ELSE 0
            /\ resp[i].image = 404 => nGet[i].desc = 1

C5_Witness ==
    \E i \in DOMAIN fut :
        fut[i].state = "done" /\ resp[i].image = 404 /\ resp[i].desc = 404

\* C6: the final report holds every error string of every entry's result
\* exactly as often as the results hold it: none lost, none duplicated.
RECURSIVE CountInResults(_, _)
CountInResults(i, e) ==
    IF i = 0 THEN 0
    ELSE Count(fut[i].result, e) + CountInResults(i - 1, e)

RECURSIVE TotalResults(_)
TotalResults(i) ==
    IF i = 0 THEN 0 ELSE Len(fut[i].result) + TotalResults(i - 1)

C6_ReportHoldsEveryErrorOnce ==
    mpc = "done" =>
        /\ Len(report.errors) = TotalResults(Len(fut))
        /\ \A e \in UNION {{fut[i].result[j] : j \in DOMAIN fut[i].result} :
                             i \in DOMAIN fut} :
              Count(report.errors, e) = CountInResults(Len(fut), e)

C6_Witness ==
    /\ mpc = "done"
    /\ \E i, j \in DOMAIN fut :
        i # j /\ fut[i].result # <<>> /\ fut[j].result # <<>>

\* C7: the error log is always a sequence of complete records, one per 404
\* whose append has been made, each with exactly one tab and ended by a
\* newline; and every change of the log after the reset keeps what was there
\* and adds the one complete line of a thread that got a 404.
LogWellFormed ==
    /\ elog.data # <<>> => elog.data[Len(elog.data)] = NL
    /\ Len(LogRecords) = Cardinality(LoggedFetches)
    /\ \A j \in DOMAIN LogRecords :
        /\ Count(LogRecords[j], TAB) = 1
        /\ LogRecords[j][1] # TAB
        /\ LogRecords[j][Len(LogRecords[j])] # TAB

AppendsOneLine ==
    (elog' # elog /\ mpc # "reset") =>
        \E w \in Workers :
            /\ thr[w].pc = "log404"
            /\ elog'.exists
            /\ elog'.data = elog.data \o thr[w].ctx \o <<TAB>> \o thr[w].curl \o <<NL>>

Fetch404LeavesFiles ==
    \A w \in Workers :
        (thr'[w] # thr[w] /\ (thr[w].status = 404 \/ thr'[w].status = 404)) =>
            /\ fs' = fs
            /\ thr[w].pc = "log404" =>
                /\ fut'[thr[w].idx].state # "raised"
                /\ LET errs == IF thr'[w].pc = "idle"
                               THEN fut'[thr[w].idx].result
                               ELSE thr'[w].errors
                   IN  /\ Len(errs) = Len(thr[w].errors) + 1
                       /\ errs[Len(errs)] =
                            Expected404String(thr[w].idx, thr[w].call)

C8_NotFoundLeavesDestination == [][Fetch404LeavesFiles]_vars

\* The asset request of cat.png got a 404 and the stale local file is
\* unchanged; the description request got one too and no such file exists.
C8_Witness ==
    \E i \in DOMAIN fut :
        /\ fut[i].state = "done" /\ entries[i][1] = F1
        /\ resp[i].image = 404 /\ resp[i].desc = 404
        /\ fs[PathJoin(OUTPUT_DIR, F1)] = File(<<2>>)
        /\ fs[PathJoin(DESC_DIR, F1 \o <<".desc">>)] = Absent

\* The manifest file holds a non-blank line that does not split into five
\* fields.
HasMalformedLine ==
    \E j \in DOMAIN manifest :
        /\ Strip(manifest[j]) # <<>>
        /\ Len(Split(Strip(manifest[j]), TAB)) # 5

NoFetchYet == \A i \in 1..MaxLines : nGet[i].image = 0 /\ nGet[i].desc = 0

C10_EveryEntryRunsOnce ==
    mpc \in {"done", "crashed"} => \A i \in DOMAIN fut : nRun[i] = 1

\* C11: main is past the pool's with block (it printed "All downloads
\* completed.", emitted the report, or left on an exception) only when every
\* worker invocation has returned: no thread is verifying, fetching or
\* writing, no work item waits, no future is running or pending.
C11_ReportAfterEveryWorkerReturned ==
    mpc \in {"completed", "done", "crashed"} =>
        /\ \A w \in Workers : thr[w].pc = "idle"
        /\ queue = <<>>
        /\ \A i \in DOMAIN fut : fut[i].state \notin {"pending", "running"}
        /\ mpc # "crashed" => \A i \in DOMAIN fut : fut[i].state = "done"

\* The report was emitted after two entries made their fetches.
C11_Witness ==
    /\ mpc = "done"
    /\ report.kind # "none"
    /\ Len(fut) >= 2
    /\ \A i \in DOMAIN fut : nGet[i].desc = 1

\* The fetches of this run that were answered 404.
NotFoundFetches == {ic \in (DOMAIN fut) \X Calls : resp[ic[1]][ic[2]] = 404}

\* C12: once the run has passed its start, the error-log file exists only
\* if a 404 of this run was logged; when the run has ended, the log holds
\* one record per 404 of this run, each the record of one of them, and
\* nothing else - so a run without a 404 ends with the file absent, whatever
\* an earlier run left.
C12_LogHoldsThisRuns404sOnly ==
    /\ mpc # "reset" => (elog.exists <=> LoggedFetches # {})
    /\ mpc \in {"done", "crashed"} =>
        /\ Len(LogRecords) = Cardinality(NotFoundFetches)
        /\ \A j \in DOMAIN LogRecords :
             \E ic \in NotFoundFetches : LogRecords[j] = ExpectedRecord(ic[1], ic[2])
        /\ NotFoundFetches = {} => elog = Absent

\* A run of two entries ended with one 404, on the second entry's
\* description, and the log is that one record.
C12_Witness ==
    /\ mpc = "done"
    /\ Len(fut) = 2
    /\ NotFoundFetches = {<<2, "desc">>}
    /\ resp[1].desc = 200
    /\ LogRecords = <<ExpectedRecord(2, "desc")>>

\* Thread w has its destination open for writing (lines 40-46).
Writing(w) == thr[w].pc = "write"

\* No two entries that unpack carry the same filename.
DistinctFilenames ==
    \A i, j \in DOMAIN entries :
        i # j /\ UnpackOk(entries[i]) /\ UnpackOk(entries[j])
            => entries[i][1] # entries[j][1]

\* C13 as claimed: no two workers have the same asset or description path
\* open for writing at the same time, whatever the manifest (two entries
\* with the same filename included).
C13_NoTwoWritersOnOnePath ==
    \A v, w \in Workers :
        v # w /\ Writing(v) /\ Writing(w) => thr[v].path # thr[w].path

\* C13 amended: when the entries carry pairwise distinct filenames, no two
\* workers have the same asset or description path open for writing at the
\* same time.
C13_DistinctFilenamesDistinctWriters ==
    DistinctFilenames =>
        \A v, w \in Workers :
            v # w /\ Writing(v) /\ Writing(w) => thr[v].path # thr[w].path

\* Two workers of entries with different filenames write their description
\* files at the same time.
C13_Witness ==
    /\ DistinctFilenames
    /\ \E v, w \in Workers :
        /\ v # w /\ Writing(v) /\ Writing(w)
        /\ thr[v].call = "desc" /\ thr[w].call = "desc"
        /\ thr[v].path # thr[w].path

FailureDetails == {ErrorText(500), ErrorText(0), <<"Connection broken">>}

\* The strings of a result that report a failed asset download.
ImageFailedStrings(result) ==
    {j \in DOMAIN result : \E a \in DOMAIN result[j] : result[j][a] = "image failed"}

\* Thread w's asset download fails in this step, and not with a 404.
AssetFetchFailsOtherThan404(w) ==
    /\ thr[w].call = "image"
    /\ thr[w].pc \in {"get", "write"}
    /\ thr'[w] # thr[w]
    /\ faults' = faults + 1
    /\ resp'[thr[w].idx].image # 404

\* C15: a failure of the asset download other than a 404 leaves the error
\* log as it is, adds one "image failed" string with the failure detail to
\* the entry's errors, and the same thread goes on to request the entry's
\* description; the entry's result then holds exactly one "image failed"
\* string and its description was requested once.
C15_AssetFailureIsNotFatal ==
    /\ [][\A w \in Workers :
            AssetFetchFailsOtherThan404(w) =>
                /\ elog' = elog
                /\ fut'[thr[w].idx].state = "running"
                /\ thr'[w].idx = thr[w].idx
                /\ thr'[w].call = "desc" /\ thr'[w].pc = "get"
                /\ \E d \in FailureDetails :
                     thr'[w].errors =
                         Append(thr[w].errors,
                                ErrString(thr[w].filename, "image failed", d))]_vars
    /\ [](\A i \in DOMAIN fut :
            fut[i].state = "done" /\ resp[i].image \in {500, 0} =>
                /\ nGet[i].desc = 1
                /\ Cardinality(ImageFailedStrings(fut[i].result)) = 1
                /\ Count(fut[i].result,
                         ErrString(entries[i][1], "image failed",
                                   ErrorText(resp[i].image))) = 1)

\* An entry returned after its asset request got a 500: its description
\* was requested and nothing was logged.
C15_Witness ==
    \E i \in DOMAIN fut :
        /\ fut[i].state = "done"
        /\ resp[i].image = 500
        /\ nGet[i].desc = 1
        /\ resp[i].desc = 200
        /\ elog = Absent

\* The threads that are in entry i's invocation.
ThreadsOf(i) == {w \in Workers : thr[w].idx = i}

\* C16: the steps of one entry follow one another.  An asset request is
\* made only after the verification finished (and found the file absent or
\* different); a description request is made only after the verification
\* finished and, when an asset download was due, after that download was
\* requested once and has returned; while the entry is being verified no
\* request of it has been made; one thread at most works on an entry, so
\* its two fetches never overlap.
C16_EntryStepsAreSequential ==
    \A i \in 1..MaxLines :
        /\ Cardinality(ThreadsOf(i)) <= 1
        /\ \A w \in ThreadsOf(i) :
             thr[w].pc = "verify" => nGet[i].image = 0 /\ nGet[i].desc = 0
        /\ nGet[i].image > 0 => obs[i] = "no"
        /\ nGet[i].desc > 0 =>
             /\ obs[i] # "unseen"
             /\ obs[i] = "no" => nGet[i].image = 1
             /\ \A w \in ThreadsOf(i) : thr[w].call = "desc"

\* A thread writes an entry's description after the entry's asset was
\* found stale and downloaded.
C16_Witness ==
    \E w \in Workers :
        /\ thr[w].call = "desc" /\ thr[w].pc = "write"
        /\ obs[thr[w].idx] = "no"
        /\ nGet[thr[w].idx].image = 1
        /\ resp[thr[w].idx].image = 200

\* The entries whose invocation has started and not yet returned.
InFlight == {i \in DOMAIN fut : fut[i].state = "running"}

\* C17: at every moment at most PoolSize (the model's MAX_WORKERS)
\* invocations have started and not returned; an entry that has not
\* started waits in the pool's queue.
C17_InFlightAtMostWorkerCount ==
    /\ Cardinality(InFlight) <= PoolSize
    /\ \A i \in DOMAIN fut :
         fut[i].state = "pending" => \E j \in DOMAIN queue : queue[j] = i

\* Every worker is busy and one entry waits for a free worker.
C17_Witness ==
    /\ Cardinality(InFlight) = PoolSize
    /\ \A w \in Workers : thr[w].pc # "idle"
    /\ \E i \in DOMAIN fut : fut[i].state = "pending"
    /\ queue # <<>>

\* The results of the first n entries, one after the other in manifest
\* order.
RECURSIVE ResultsUpTo(_)
ResultsUpTo(n) ==
    IF n = 0 THEN <<>> ELSE ResultsUpTo(n - 1) \o fut[n].result

\* The string reports a failed description download.
IsDescFailed(e) == \E a \in DOMAIN e : e[a] = "desc failed"

\* C18: whatever order the workers finish in, main's error list is the
\* results of the entries collected so far in manifest order, the report
\* is the results of all entries in manifest order, and in an entry's
\* result the "image failed" string comes before the "desc failed" one.
C18_ReportInManifestOrder ==
    /\ mpc = "collect" => all_errors = ResultsUpTo(k - 1)
    /\ mpc = "done" => report.errors = ResultsUpTo(Len(fut))
    /\ \A i \in DOMAIN fut :
         \A a \in ImageFailedStrings(fut[i].result) :
            \A b \in DOMAIN fut[i].result :
                IsDescFailed(fut[i].result[b]) => a < b

\* The report was emitted for a run whose first two entries each returned
\* one error string, the two strings different: the report has the first
\* entry's before the second's.
C18_Witness ==
    /\ mpc = "done"
    /\ Len(fut) >= 2
    /\ Len(fut[1].result) = 1 /\ Len(fut[2].result) = 1
    /\ fut[1].result # fut[2].result
    /\ report.errors = fut[1].result \o fut[2].result

\* Thread w's request is answered in this step, and not with a success
\* status.
RequestFails(w) ==
    /\ thr[w].pc = "get"
    /\ thr'[w] # thr[w]
    /\ resp'[thr[w].idx][thr[w].call] # 200

\* Thread w opens its destination in this step, on a success status.
OpensOnSuccess(w) ==
    /\ thr[w].pc = "get"
    /\ thr'[w].pc = "write" /\ thr'[w].status = 200
    /\ resp'[thr[w].idx][thr[w].call] = 200

C20_RunEndsWithReport ==
    ENABLED Next \/ (mpc = "done" /\ report.kind # "none")
====
